---- MODULE Spec2Model ----
(***************************************************************************)
(* Model of src/main.py: the Streamlit document-analysis page.  One        *)
(* rendering pass is one run of main(): the widgets are read, an uploaded  *)
(* PDF is validated through a temporary file, and, when the Process button *)
(* was pressed, the file is uploaded to S3, its text is read by Textract   *)
(* and analysed by a Bedrock model.  The three services, the PDF reader    *)
(* and the file system are the environment: each call either raises or     *)
(* returns a response drawn from a small set.                              *)
(*                                                                         *)
(* Texts are sequences of characters.  Slider values that are fractions in *)
(* the source (temperature, top_p) are counted in tenths.  Python dicts    *)
(* are records, and `k in d` is k \in DOMAIN d.                            *)
(***************************************************************************)
EXTENDS Integers, Sequences, FiniteSets

VARIABLES
    pc,             \* position of the current rendering pass in main()
    passes,         \* number of rendering passes started
    clock,          \* wall clock, in ticks, at the last datetime.now()
    puts,           \* object store: key -> number of completed uploads
    tmp_files,      \* temporary files on disk, named by the pass that made them
    selected,       \* what st.file_uploader returned in this pass
    uploaded_file,  \* main()'s local uploaded_file (NoFile is None)
    sliders,        \* the four st.slider values of this pass
    button,         \* whether "Process Document" was pressed for this pass
    s3_key,         \* main()'s local s3_key, <<>> before it is computed
    upload_out,     \* what upload_fileobj did: "none", "ok", "raise"
    upload_ret,     \* what upload_to_s3 returned, <<>> before it returns
    textract_out,   \* what the Textract stage did: "none", "ok", "raise", "client_raise"
    blocks,         \* detect_text_output["Blocks"] of this pass
    extracted_text, \* process_document's local extracted_text
    bedrock_resp,   \* <<>> or <<r>>: what invoke_model did
    request,        \* <<>> or <<r>>: request_body built by invoke_bedrock_model
    result,         \* <<>> or <<r>>: the dict process_document returned
    errors,         \* the st.error messages of this pass
    calls,          \* the service calls issued in this pass, in order
    displayed,      \* whether metrics and result areas were rendered
    fault           \* where an exception left main() uncaught, "" if none

vars == <<pc, passes, clock, puts, tmp_files, selected, uploaded_file, sliders,
          button, s3_key, upload_out, upload_ret, textract_out, blocks,
          extracted_text, bedrock_resp, request, result, errors, calls,
          displayed, fault>>

(***************************************************************************)
(* Bounds of the model.                                                    *)
(***************************************************************************)
MaxPasses == 2
MaxClock == 3
TicksPerSecond == 2
MaxPages == 2
MaxBlocks == 2

(***************************************************************************)
(* Inputs.                                                                 *)
(***************************************************************************)
NoFile == [type |-> "none", name |-> <<>>, pages |-> 0, text_ok |-> TRUE]

\* pages = -1: PdfReader cannot parse the file.  text_ok = FALSE:
\* page.extract_text() raises.
PdfFiles ==
    { [type |-> "application/pdf", name |-> <<"scan", "pdf">>,
       pages |-> n, text_ok |-> TRUE] : n \in (-1)..MaxPages }
    \cup
    { [type |-> "application/pdf", name |-> <<"scan", "pdf">>,
       pages |-> 1, text_ok |-> FALSE] }

ImageFiles ==
    { [type |-> "image/png", name |-> <<"lab", "v2", "png">>,
       pages |-> 1, text_ok |-> TRUE] }

Files == PdfFiles \cup ImageFiles

DefaultMaxNewTokens == 1000
DefaultTemperature == 7
DefaultTopP == 9
DefaultTopK == 20

SliderValues ==
    [max_new_tokens : {500, DefaultMaxNewTokens},
     temperature : {2, DefaultTemperature},
     top_p : {5, DefaultTopP},
     top_k : {DefaultTopK, 50}]

custom_prompt == <<"p">>

Fragments == { <<>>, <<"a", "b">> }

BlockValues ==
    { [BlockType |-> "PAGE"] }
    \cup { [BlockType |-> "LINE", Text |-> f] : f \in Fragments }

RECURSIVE SeqsUpTo(_, _)
SeqsUpTo(S, n) ==
    IF n = 0 THEN { <<>> }
    ELSE LET shorter == SeqsUpTo(S, n - 1)
         IN  shorter \cup { Append(s, x) : s \in shorter, x \in S }

BlockLists == SeqsUpTo(BlockValues, MaxBlocks)

Bodies ==
    { [ResponseMetadata |-> "m"],
      [output |-> [stopReason |-> "s"]],
      [output |-> [message |-> [role |-> "assistant"]]],
      [output |-> [message |-> [content |-> <<>>]]],
      [output |-> [message |-> [content |-> << [image |-> "i"] >>]]],
      [output |-> [message |-> [content |-> << [text |-> <<>>] >>]]],
      [output |-> [message |-> [content |-> << [text |-> <<"r">>] >>]]] }

Responses ==
    { [raised |-> TRUE, body |-> [ResponseMetadata |-> "m"]] }
    \cup { [raised |-> FALSE, body |-> b] : b \in Bodies }

(***************************************************************************)
(* Messages of st.error.                                                   *)
(***************************************************************************)
ErrMultiPage == "Multi-page documents are not supported"
ErrPdf == "Error processing PDF"
ErrUploadS3 == "Error uploading to S3"
ErrUploadFailed == "Failed to upload file"
ErrProcessing == "Error processing document"
ErrModel == "Error invoking model"

(***************************************************************************)
(* upload_to_s3 (lines 25-33), after the client was built: `outcome` is    *)
(* what s3_client.upload_fileobj did.                                      *)
(***************************************************************************)
upload_to_s3_ReturnsTrue(outcome) ==
    [ret |-> TRUE, errs |-> IF outcome = "ok" THEN {} ELSE {ErrUploadS3}]

upload_to_s3(outcome) ==
    IF outcome = "ok"
    THEN [ret |-> TRUE, errs |-> {}]
    ELSE [ret |-> FALSE, errs |-> {ErrUploadS3}]

(***************************************************************************)
(* The text of the OCR response (lines 118-120): the Text of the blocks    *)
(* that have one, in response order, joined by newlines.                   *)
(***************************************************************************)
HasText_Truthy(block) == "Text" \in DOMAIN block /\ Len(block.Text) > 0

HasText(block) == "Text" \in DOMAIN block

TextFragments(bs) ==
    LET kept == SelectSeq(bs, HasText)
    IN  [i \in 1..Len(kept) |-> kept[i].Text]

RECURSIVE JoinLines(_)
JoinLines(fs) ==
    IF Len(fs) = 0 THEN <<>>
    ELSE IF Len(fs) = 1 THEN fs[1]
    ELSE fs[1] \o <<"\n">> \o JoinLines(Tail(fs))

ExtractText(bs) == JoinLines(TextFragments(bs))

(***************************************************************************)
(* invoke_bedrock_model (lines 35-85).  The request is built from the      *)
(* prompt and the extracted text; inf_params are the literals of lines     *)
(* 53-58.  `resp` is what client.invoke_model did.                         *)
(***************************************************************************)
inf_params ==
    [max_new_tokens |-> DefaultMaxNewTokens,
     top_p |-> DefaultTopP,
     top_k |-> DefaultTopK,
     temperature |-> DefaultTemperature]

request_body(prompt, text) ==
    [schemaVersion |-> "messages-v1",
     messages |-> << [role |-> "user",
                      content |-> << [text |-> prompt \o <<":", "\n", "\n">>
                                               \o text \o <<"\n", "\n">>] >>] >>,
     system |-> << [text |-> "You are a helpful assistant that analyzes text from scanned documents"] >>,
     inferenceConfig |-> inf_params]

\* Lines 75-81: the value returned, or a KeyError.
ParseResponse(body) ==
    IF "output" \in DOMAIN body
    THEN IF "message" \notin DOMAIN body.output
         THEN [raised |-> TRUE, ret |-> <<>>]
         ELSE LET message == body.output.message
              IN  IF "content" \in DOMAIN message /\ Len(message.content) > 0
                  THEN IF "text" \notin DOMAIN message.content[1]
                       THEN [raised |-> TRUE, ret |-> <<>>]
                       ELSE [raised |-> FALSE, ret |-> message.content[1].text]
                  ELSE [raised |-> FALSE, ret |-> <<>>]
    ELSE [raised |-> FALSE, ret |-> <<>>]

\* Lines 67-85: the try block and its except clause.  `escaped` says whether
\* an exception leaves the function.
invoke_bedrock_model_NoExcept(resp) ==
    LET parsed == IF resp.raised
                  THEN [raised |-> TRUE, ret |-> <<>>]
                  ELSE ParseResponse(resp.body)
    IN  [ret |-> parsed.ret, errs |-> {}, escaped |-> parsed.raised]

invoke_bedrock_model(resp) ==
    LET parsed == IF resp.raised
                  THEN [raised |-> TRUE, ret |-> <<>>]
                  ELSE ParseResponse(resp.body)
    IN  IF parsed.raised
        THEN [ret |-> <<>>, errs |-> {ErrModel}, escaped |-> FALSE]
        ELSE [ret |-> parsed.ret, errs |-> {}, escaped |-> FALSE]

(***************************************************************************)
(* The PDF branch of main() (lines 206-236).  `created` says whether       *)
(* NamedTemporaryFile gave a file.  Returns whether the selection is kept, *)
(* the messages reported and whether the temporary file is still on disk   *)
(* when the block is left.                                                 *)
(***************************************************************************)
MultiPage_OffByOne(num_pages) == num_pages > 2

MultiPage(num_pages) == num_pages > 1

ValidatePdf(file, created) ==
    IF ~created
    THEN [keep |-> FALSE, errs |-> {ErrPdf}, tmp_left |-> FALSE]
    ELSE IF file.pages < 0
    THEN [keep |-> FALSE, errs |-> {ErrPdf}, tmp_left |-> TRUE]
    ELSE IF MultiPage(file.pages)
    THEN [keep |-> FALSE, errs |-> {ErrMultiPage}, tmp_left |-> FALSE]
    ELSE IF file.pages = 0 \/ ~file.text_ok
    THEN [keep |-> FALSE, errs |-> {ErrPdf}, tmp_left |-> TRUE]
    ELSE [keep |-> TRUE, errs |-> {}, tmp_left |-> FALSE]

(***************************************************************************)
(* The storage key (lines 246-247): the last dot-separated part of the     *)
(* file name and the time of day cut to whole seconds.                     *)
(***************************************************************************)
file_extension(name) == name[Len(name)]

Timestamp(now) == now \div TicksPerSecond

S3Key(now, name) == <<"uploads", Timestamp(now), file_extension(name)>>

Keys ==
    { <<"uploads", t, e>> : t \in 0..(MaxClock \div TicksPerSecond),
                            e \in { file_extension(f.name) : f \in Files } }

(***************************************************************************)
(* The dict process_document returns: from its except clause (lines        *)
(* 136-143), and from its normal end (lines 129-134).                      *)
(***************************************************************************)
FailedResult ==
    [extracted_text |-> <<>>, analysis_result |-> <<>>,
     textract_time |-> "zero", bedrock_time |-> "zero"]

NormalResult(text, analysis) ==
    [extracted_text |-> text, analysis_result |-> analysis,
     textract_time |-> "measured", bedrock_time |-> "measured"]

AfterTextractRaise_Continue == "bedrock"

\* Where process_document goes when the Textract stage raised (line 136).
AfterTextractRaise == "display"

AfterUpload_Unchecked(ret) == "textract"

\* Where main() goes when upload_to_s3 returned `ret` (lines 250, 282).
AfterUpload(ret) == IF ret THEN "textract" ELSE "done"

(***************************************************************************)
(* State of the page before the first rendering pass.                      *)
(***************************************************************************)
Init ==
    /\ pc = "idle"
    /\ passes = 0
    /\ clock = 0
    /\ puts = [k \in Keys |-> 0]
    /\ tmp_files = {}
    /\ selected = NoFile
    /\ uploaded_file = NoFile
    /\ sliders = [max_new_tokens |-> DefaultMaxNewTokens,
                  temperature |-> DefaultTemperature,
                  top_p |-> DefaultTopP,
                  top_k |-> DefaultTopK]
    /\ button = FALSE
    /\ s3_key = <<>>
    /\ upload_out = "none"
    /\ upload_ret = <<>>
    /\ textract_out = "none"
    /\ blocks = <<>>
    /\ extracted_text = <<>>
    /\ bedrock_resp = <<>>
    /\ request = <<>>
    /\ result = <<>>
    /\ errors = {}
    /\ calls = <<>>
    /\ displayed = FALSE
    /\ fault = ""

(***************************************************************************)
(* main(), lines 145-200: a user action starts a rendering pass; the       *)
(* widgets return the sliders, the selected file and the button.           *)
(***************************************************************************)
Render ==
    /\ pc \in {"idle", "done", "crashed"}
    /\ passes < MaxPasses
    /\ passes' = passes + 1
    /\ \E f \in Files \cup {NoFile} :
          /\ selected' = f
          /\ uploaded_file' = f
    /\ sliders' \in SliderValues
    /\ button' \in BOOLEAN
    /\ s3_key' = <<>>
    /\ upload_out' = "none"
    /\ upload_ret' = <<>>
    /\ textract_out' = "none"
    /\ blocks' = <<>>
    /\ extracted_text' = <<>>
    /\ bedrock_resp' = <<>>
    /\ request' = <<>>
    /\ result' = <<>>
    /\ errors' = {}
    /\ calls' = <<>>
    /\ displayed' = FALSE
    /\ fault' = ""
    /\ pc' = "validate"
    /\ UNCHANGED <<clock, puts, tmp_files>>

(***************************************************************************)
(* main(), lines 203-240: the preview of the selected file.                *)
(***************************************************************************)
Validate ==
    /\ pc = "validate"
    /\ IF uploaded_file # NoFile /\ uploaded_file.type = "application/pdf"
       THEN \E created \in BOOLEAN :
               LET v == ValidatePdf(uploaded_file, created)
               IN  /\ uploaded_file' = IF v.keep THEN uploaded_file ELSE NoFile
                   /\ errors' = errors \cup v.errs
                   /\ tmp_files' = IF v.tmp_left
                                   THEN tmp_files \cup {passes}
                                   ELSE tmp_files
       ELSE UNCHANGED <<uploaded_file, errors, tmp_files>>
    /\ pc' = "button"
    /\ UNCHANGED <<passes, clock, puts, selected, sliders, button, s3_key,
                   upload_out, upload_ret, textract_out, blocks,
                   extracted_text, bedrock_resp, request, result, calls,
                   displayed, fault>>

(***************************************************************************)
(* main(), lines 243-247: the button test and the storage key.  The clock  *)
(* read is later than the previous one, and leaves a tick for each pass    *)
(* still to come within MaxClock.                                          *)
(***************************************************************************)
ClockHorizon == MaxClock - (MaxPasses - passes)

Button ==
    /\ pc = "button"
    /\ IF uploaded_file # NoFile /\ button
       THEN \E now \in (clock + 1)..ClockHorizon :
               /\ clock' = now
               /\ s3_key' = S3Key(now, uploaded_file.name)
               /\ pc' = "upload"
       ELSE /\ pc' = "done"
            /\ UNCHANGED <<clock, s3_key>>
    /\ UNCHANGED <<passes, puts, tmp_files, selected, uploaded_file, sliders,
                   button, upload_out, upload_ret, textract_out, blocks,
                   extracted_text, bedrock_resp, request, result, errors,
                   calls, displayed, fault>>

(***************************************************************************)
(* main(), lines 249-251 and 282-283, with upload_to_s3 (lines 25-33).     *)
(* boto3.client at line 27 is outside the try block.                       *)
(***************************************************************************)
Upload ==
    /\ pc = "upload"
    /\ \E outcome \in {"client_raise", "raise", "ok"} :
          IF outcome = "client_raise"
          THEN /\ pc' = "crashed"
               /\ fault' = "s3_client"
               /\ UNCHANGED <<puts, upload_out, upload_ret, errors, calls>>
          ELSE LET r == upload_to_s3(outcome)
               IN  /\ calls' = Append(calls, "upload")
                   /\ upload_out' = outcome
                   /\ upload_ret' = <<r.ret>>
                   /\ puts' = IF outcome = "ok"
                              THEN [puts EXCEPT ![s3_key] = @ + 1]
                              ELSE puts
                   /\ errors' = errors \cup r.errs
                                \cup (IF r.ret THEN {} ELSE {ErrUploadFailed})
                   /\ pc' = AfterUpload(r.ret)
                   /\ fault' = fault
    /\ UNCHANGED <<passes, clock, tmp_files, selected, uploaded_file, sliders,
                   button, s3_key, textract_out, blocks, extracted_text,
                   bedrock_resp, request, result, displayed>>

(***************************************************************************)
(* process_document, lines 102-121: the two clients and the Textract call. *)
(* Any exception goes to the except clause of lines 136-143.               *)
(***************************************************************************)
Textract ==
    /\ pc = "textract"
    /\ \/ /\ textract_out' = "client_raise"
          /\ errors' = errors \cup {ErrProcessing}
          /\ result' = <<FailedResult>>
          /\ pc' = AfterTextractRaise
          /\ UNCHANGED <<calls, blocks, extracted_text>>
       \/ /\ textract_out' = "raise"
          /\ calls' = Append(calls, "detect")
          /\ errors' = errors \cup {ErrProcessing}
          /\ result' = <<FailedResult>>
          /\ pc' = AfterTextractRaise
          /\ UNCHANGED <<blocks, extracted_text>>
       \/ \E bs \in BlockLists :
             /\ textract_out' = "ok"
             /\ calls' = Append(calls, "detect")
             /\ blocks' = bs
             /\ extracted_text' = ExtractText(bs)
             /\ pc' = "bedrock"
             /\ UNCHANGED <<errors, result>>
    /\ UNCHANGED <<passes, clock, puts, tmp_files, selected, uploaded_file,
                   sliders, button, s3_key, upload_out, upload_ret,
                   bedrock_resp, request, displayed, fault>>

(***************************************************************************)
(* process_document, lines 123-134, with invoke_bedrock_model.             *)
(***************************************************************************)
Bedrock ==
    /\ pc = "bedrock"
    /\ \E resp \in Responses :
          LET r == invoke_bedrock_model(resp)
          IN  /\ request' = <<request_body(custom_prompt, extracted_text)>>
              /\ calls' = Append(calls, "invoke")
              /\ bedrock_resp' = <<resp>>
              /\ errors' = errors \cup r.errs
                           \cup (IF r.escaped THEN {ErrProcessing} ELSE {})
              /\ result' = IF r.escaped
                           THEN <<FailedResult>>
                           ELSE <<NormalResult(extracted_text, r.ret)>>
    /\ pc' = "display"
    /\ UNCHANGED <<passes, clock, puts, tmp_files, selected, uploaded_file,
                   sliders, button, s3_key, upload_out, upload_ret,
                   textract_out, blocks, extracted_text, displayed, fault>>

(***************************************************************************)
(* main(), lines 255-281: the metrics and the two result areas.            *)
(***************************************************************************)
Display ==
    /\ pc = "display"
    /\ displayed' = TRUE
    /\ pc' = "done"
    /\ UNCHANGED <<passes, clock, puts, tmp_files, selected, uploaded_file,
                   sliders, button, s3_key, upload_out, upload_ret,
                   textract_out, blocks, extracted_text, bedrock_resp,
                   request, result, errors, calls, fault>>

Next ==
    \/ Render
    \/ Validate
    \/ Button
    \/ Upload
    \/ Textract
    \/ Bedrock
    \/ Display

Spec == Init /\ [][Next]_vars

(***************************************************************************)
(* Properties.                                                             *)
(***************************************************************************)
ServiceOrder == <<"upload", "detect", "invoke">>

\* C1: once the preview of a PDF of more than one page is over, an error
\* has been reported, the selection is cleared and no service was called,
\* whether or not the button was pressed.
C1_MultiPageRejected ==
    (selected.type = "application/pdf" /\ selected.pages > 1 /\ pc # "validate")
    => /\ errors \cap {ErrMultiPage, ErrPdf} # {}
       /\ uploaded_file = NoFile
       /\ calls = <<>>
       /\ pc \in {"button", "done"}
       /\ upload_out = "none" /\ textract_out = "none" /\ bedrock_resp = <<>>

C1_Witness ==
    /\ selected.type = "application/pdf" /\ selected.pages > 1
    /\ button /\ pc = "done" /\ ErrMultiPage \in errors

\* C2 as stated: when the Textract call raised, the pass ends with the
\* inference client invoked on an empty extracted text.
C2_InferenceStillInvoked ==
    (textract_out = "raise" /\ pc = "done")
    => /\ Len(calls) = 3 /\ calls[3] = "invoke"
       /\ request = <<request_body(custom_prompt, <<>>)>>

\* C2 as amended: when the Textract call raised, the error is reported,
\* process_document returns the empty result of its except clause without
\* invoking the inference client, and main() still displays that result.
C2_ExtractionFailureSkipsInference ==
    textract_out = "raise"
    => /\ ErrProcessing \in errors
       /\ result = << [extracted_text |-> <<>>, analysis_result |-> <<>>,
                       textract_time |-> "zero", bedrock_time |-> "zero"] >>
       /\ calls = <<"upload", "detect">>
       /\ request = <<>> /\ bedrock_resp = <<>>
       /\ pc \in {"display", "done"}
       /\ (pc = "done" => displayed)
       /\ fault = ""

C2_Witness == textract_out = "raise" /\ pc = "done" /\ displayed

\* C3: the inferenceConfig of the request carries the four slider values
\* of the pass.
C3_RequestCarriesSliders ==
    request # <<>>
    => request[1].inferenceConfig =
          [max_new_tokens |-> sliders.max_new_tokens,
           top_p |-> sliders.top_p,
           top_k |-> sliders.top_k,
           temperature |-> sliders.temperature]

\* C4: when the upload raised, upload_to_s3 reported it and returned False,
\* the pass is over, neither Textract nor the model was called and nothing
\* was displayed.
C4_UploadFailureHalts ==
    upload_out = "raise"
    => /\ upload_ret = <<FALSE>>
       /\ ErrUploadS3 \in errors
       /\ pc = "done"
       /\ calls = <<"upload">>
       /\ textract_out = "none" /\ bedrock_resp = <<>>
       /\ result = <<>> /\ ~displayed

C4_Witness == upload_out = "raise" /\ pc = "done" /\ ErrUploadFailed \in errors

\* C5: no exception leaves main() uncaught.
C5_NoUncaughtFault == fault = "" /\ pc # "crashed"

\* C6: the calls of a pass are a prefix of upload, detect, invoke (each at
\* most once, in that order), made only for an accepted single-page document
\* with the button pressed; Textract is called only after a successful
\* upload, the model only after Textract returned, and results displayed
\* after three successes follow exactly one call of each.
C6_OrderedAtMostOnce ==
    /\ Len(calls) <= 3
    /\ \A i \in 1..Len(calls) : calls[i] = ServiceOrder[i]
    /\ Len(calls) >= 1 => (button /\ selected # NoFile /\ selected.pages = 1)
    /\ Len(calls) >= 2 => upload_out = "ok"
    /\ Len(calls) = 3 => textract_out = "ok"
    /\ (displayed /\ textract_out = "ok") => calls = ServiceOrder

C6_Witness ==
    /\ displayed /\ calls = ServiceOrder
    /\ upload_out = "ok" /\ textract_out = "ok"
    /\ bedrock_resp # <<>> /\ ~bedrock_resp[1].raised

\* The inference failures C7 names.
C7_InferenceFailed(resp) ==
    \/ resp.raised
    \/ "output" \notin DOMAIN resp.body
    \/ "message" \notin DOMAIN resp.body.output
    \/ "content" \notin DOMAIN resp.body.output.message
    \/ Len(resp.body.output.message.content) = 0
    \/ "text" \notin DOMAIN resp.body.output.message.content[1]

\* C7: after an inference failure, process_document has returned the text
\* of the Textract stage unchanged with an empty analysis result, and no
\* exception left invoke_bedrock_model.
C7_InferenceFailureIsEmpty ==
    (bedrock_resp # <<>> /\ C7_InferenceFailed(bedrock_resp[1]))
    => /\ result # <<>>
       /\ result[1].analysis_result = <<>>
       /\ result[1].extracted_text = extracted_text
       /\ ErrProcessing \notin errors
       /\ fault = ""
       /\ pc \in {"display", "done"}

C7_Witness ==
    /\ bedrock_resp # <<>>
    /\ ~bedrock_resp[1].raised
    /\ "output" \in DOMAIN bedrock_resp[1].body
    /\ "message" \notin DOMAIN bedrock_resp[1].body.output
    /\ Len(extracted_text) > 0
    /\ pc = "done"

\* The blocks of the response that carry a text field.
C8_TextIdx == { i \in 1..Len(blocks) : "Text" \in DOMAIN blocks[i] }

\* The length of the join of the fragments among blocks 1..i, each followed
\* by one separator.
RECURSIVE C8_End(_)
C8_End(i) ==
    IF i = 0 THEN 0
    ELSE C8_End(i - 1)
         + (IF i \in C8_TextIdx THEN Len(blocks[i].Text) + 1 ELSE 0)

\* C8: the extracted text is the fragments of the text-bearing blocks, in
\* response order, each but the last followed by one newline; with no such
\* block it is empty and no error is reported; process_document returns it.
C8_ExtractedIsNewlineJoin ==
    textract_out = "ok"
    => /\ Len(extracted_text) =
             (IF C8_TextIdx = {} THEN 0 ELSE C8_End(Len(blocks)) - 1)
       /\ \A i \in C8_TextIdx :
             /\ \A j \in 1..Len(blocks[i].Text) :
                   extracted_text[C8_End(i - 1) + j] = blocks[i].Text[j]
             /\ C8_End(i) <= Len(extracted_text)
                   => extracted_text[C8_End(i)] = "\n"
       /\ ErrProcessing \notin errors
       /\ result # <<>> => result[1].extracted_text = extracted_text

C8_Witness ==
    /\ textract_out = "ok" /\ pc = "done"
    /\ Len(blocks) = 2 /\ Cardinality(C8_TextIdx) = 1
    /\ Len(extracted_text) > 0

\* C9: no storage key receives a second upload.
C9_KeyNeverReused == \A k \in Keys : puts[k] <= 1

\* C10: once the preview of a pass is over, the temporary file of that pass
\* is no longer on disk.
C10_TempFileRemoved ==
    pc \notin {"idle", "validate"} => passes \notin tmp_files

====
